---- MODULE Spec2Model ----
(***************************************************************************)
(* MockSheetService (src/unnamed/part_000): the shortage-tracking store,   *)
(* its two import reconcilers, the work-order metadata import and the row  *)
(* mutators and the user accounts, together with the work-order branch of  *)
(* the upload handler executeImport (src/App.tsx).                         *)
(*                                                                         *)
(* Every public method of the service is one action.  The artificial delay *)
(* at the head of login, searchTracking and the two imports precedes every *)
(* read of the database, so an action is the synchronous body that runs    *)
(* after it.  Where the caller awaits each call nothing is ever pending;   *)
(* AsyncSpec lets the caller invoke calls while earlier ones are delayed,  *)
(* and TabSpec runs a second instance of the service on the same blob.     *)
(***************************************************************************)
EXTENDS Integers, Sequences, FiniteSets, TLC

VARIABLES
  db,        \* this.db: [trackingSchedule, usersRoles]
  store,     \* localStorage['mock_sheet_db']: the persisted blob
  pre,       \* this.db when the last call started
  preStore,  \* the persisted blob when the last call started
  op,        \* the last call: [name, args]
  ret,       \* what the last call returned
  now,       \* Date.now()
  rnd,       \* number of Math.random() values drawn so far
  nops,      \* number of calls made so far
  other,     \* this.db of a second instance of the service (another tab)
  pending,   \* the calls invoked and not yet run, in invocation order
  ref        \* the tracking rows had every call run when it was invoked

vars == <<db, store, pre, preStore, op, ret, now, rnd, nops,
          other, pending, ref>>

(***************************************************************************)
(* Bounds of the model.                                                    *)
(***************************************************************************)
MaxOps == 2      \* calls per behaviour of Spec
MaxFlowOps == 3  \* calls per behaviour of FlowSpec
MaxBatch == 2    \* records per imported batch
MaxClock == 1    \* clock ticks per behaviour
MaxAccessOps == 4  \* calls per behaviour of AccessSpec

(***************************************************************************)
(* JavaScript values.                                                      *)
(***************************************************************************)
Undefined == "<undefined>"   \* an absent optional field / spreadsheet cell

\* !!s for an optional string
Truthy(s) == s # Undefined /\ s # ""

\* a || b for optional strings
OrElse(a, b) == IF Truthy(a) THEN a ELSE b

\* The strings of the model that carry surrounding blanks, and String.trim.
Pad(s) == " " \o s \o " "
Words == {"", "zu-zhuang", "MODELA"}
Trim(s) == IF \E w \in Words : s = Pad(w)
             THEN CHOOSE w \in Words : s = Pad(w)
             ELSE s

\* String.toLowerCase on the model names and usernames in use.
ToLowerCase(s) ==
  CASE s = "ModelA" -> "modela"
    [] s = "Admin" -> "admin"
    [] s = "Amy" -> "amy"
    [] s = "ModelB" -> "modelb"
    [] s = "ModelC" -> "modelc"
    [] s = "Unknown" -> "unknown"
    [] s = "MODELA" -> "modela"
    [] OTHER -> s

SKELETON == "WO_INFO_ONLY"   \* partNumber of a skeleton row

\* The localized stage labels of importWODetails, written in ASCII:
\* U+6253 U+4EF6 (SMT), U+7D44 U+88DD (Assembly), U+5305 U+88DD (Packing).
LabelSMT == "da-jian"
LabelAssembly == "zu-zhuang"
LabelPacking == "bao-zhuang"

Stages == {"SMT", "Assembly", "Packing"}

RowFields ==
  {"id", "model", "workOrder", "productPartNumber", "partNumber", "partName",
   "specification", "stage", "vendor", "supplier", "shortageQty",
   "productionDate", "oqcDate", "isMaterialReady", "purchaserReplyDate",
   "purchaserRemark", "status", "purchaserUsername", "isArchived"}

(***************************************************************************)
(* Persistence: JSON.stringify drops the properties whose value is         *)
(* undefined; a property missing from the parsed object reads as undefined.*)
(***************************************************************************)
\* the properties TrackingRow declares optional
OptionalFields == {"productPartNumber", "productionDate"}

StringifyRow(row) ==
  [f \in {g \in DOMAIN row : g \in OptionalFields => row[g] # Undefined} |->
     row[f]]

ParseRow(obj) ==
  [f \in RowFields |-> IF f \in DOMAIN obj THEN obj[f] ELSE Undefined]

Stringify(d) ==
  [trackingSchedule |->
     [k \in 1..Len(d.trackingSchedule) |-> StringifyRow(d.trackingSchedule[k])],
   usersRoles |-> d.usersRoles]

Parse(blob) ==
  [trackingSchedule |->
     [k \in 1..Len(blob.trackingSchedule) |-> ParseRow(blob.trackingSchedule[k])],
   usersRoles |-> blob.usersRoles]

(***************************************************************************)
(* Status calculator.                                                      *)
(***************************************************************************)
\* Mutant of calculateStatus: a replied row that is not ready is late.
calculateStatusLate(row) ==
  IF row.isMaterialReady THEN "Ready"
  ELSE IF ~Truthy(row.purchaserReplyDate) THEN "Pending"
  ELSE "Late"

\* Mutant of calculateStatus: the reply date is looked at first.
calculateStatusReplyFirst(row) ==
  IF ~Truthy(row.purchaserReplyDate) THEN "Pending"
  ELSE IF row.isMaterialReady THEN "Ready"
  ELSE "Confirmed"

calculateStatus(row) ==
  IF row.isMaterialReady THEN "Ready"
  ELSE IF ~Truthy(row.purchaserReplyDate) THEN "Pending"
  ELSE "Confirmed"

(***************************************************************************)
(* Helpers over the tracking rows.                                         *)
(***************************************************************************)
\* Array.find / Array.some by work order: the first matching index, 0 if none
FirstRowOf(ts, wo) ==
  IF \E k \in 1..Len(ts) : ts[k].workOrder = wo
    THEN CHOOSE k \in 1..Len(ts) :
           /\ ts[k].workOrder = wo
           /\ \A j \in 1..(k - 1) : ts[j].workOrder # wo
    ELSE 0

\* Array.find by id
FirstRowWithId(ts, id) ==
  IF \E k \in 1..Len(ts) : ts[k].id = id
    THEN CHOOSE k \in 1..Len(ts) :
           /\ ts[k].id = id
           /\ \A j \in 1..(k - 1) : ts[j].id # id
    ELSE 0

\* the work orders of a batch (Object.keys(incomingByWO))
TargetWOs(data) == {data[i].workOrder : i \in 1..Len(data)}

(***************************************************************************)
(* importShortages, replace policy.                                        *)
(***************************************************************************)
\* Mutant of FilterOut: the prior shortages go, the skeleton rows stay.
FilterOutShortages(ts, wos) ==
  SelectSeq(ts, LAMBDA row : row.workOrder \notin wos \/ row.partNumber = SKELETON)

\* Array.filter(row => !targetWOs.includes(row.workOrder))
FilterOut(ts, wos) == SelectSeq(ts, LAMBDA row : row.workOrder \notin wos)

\* metadataMap: for each target work order that has a row in ts, the
\* metadata of its first row
MetadataMap(ts, wos) ==
  [w \in {x \in wos : FirstRowOf(ts, x) # 0} |->
     LET r == ts[FirstRowOf(ts, w)]
     IN [model |-> r.model, vendor |-> r.vendor, stage |-> r.stage,
         prodDate |-> OrElse(r.productionDate, ""),
         productPN |-> OrElse(r.productPartNumber, "")]]

\* Mutant of DefaultMeta: no placeholder for the model.
DefaultMetaBlank ==
  [model |-> "", vendor |-> "", stage |-> "SMT",
   prodDate |-> "", productPN |-> ""]

DefaultMeta ==
  [model |-> "Unknown", vendor |-> "", stage |-> "SMT",
   prodDate |-> "", productPN |-> ""]

\* Mutant of ReplaceNewRow: a record of quantity 0 enters as 'Ready'.
ReplaceNewRowResolved(d, i, meta, t) ==
  [id |-> <<"track", t, i - 1>>,
   model |-> OrElse(d.model, meta.model),
   workOrder |-> d.workOrder,
   partNumber |-> d.partNumber,
   partName |-> d.partName,
   specification |-> d.specification,
   supplier |-> d.supplier,
   shortageQty |-> d.shortageQty,
   stage |-> meta.stage,
   vendor |-> meta.vendor,
   productPartNumber |-> meta.productPN,
   productionDate |-> meta.prodDate,
   oqcDate |-> "",
   isMaterialReady |-> FALSE,
   purchaserReplyDate |-> "",
   purchaserRemark |-> "",
   status |-> IF d.shortageQty = 0 THEN "Ready" ELSE "Pending",
   purchaserUsername |-> "",
   isArchived |-> FALSE]

\* the row pushed for the i-th record (i counts from 0 in the id)
ReplaceNewRow(d, i, meta, t) ==
  [id |-> <<"track", t, i - 1>>,
   model |-> OrElse(d.model, meta.model),
   workOrder |-> d.workOrder,
   partNumber |-> d.partNumber,
   partName |-> d.partName,
   specification |-> d.specification,
   supplier |-> d.supplier,
   shortageQty |-> d.shortageQty,
   stage |-> meta.stage,
   vendor |-> meta.vendor,
   productPartNumber |-> meta.productPN,
   productionDate |-> meta.prodDate,
   oqcDate |-> "",
   isMaterialReady |-> FALSE,
   purchaserReplyDate |-> "",
   purchaserRemark |-> "",
   status |-> "Pending",
   purchaserUsername |-> "",
   isArchived |-> FALSE]

\* The replace branch.  The rows of the target work orders are filtered out
\* (line 137) before metadataMap is built from this.db.trackingSchedule
\* (lines 160-173), and filtered out once more (line 176).
ReplaceBranch(ts, data, t) ==
  LET targetWOs == TargetWOs(data)
      ts1 == FilterOut(ts, targetWOs)
      metadataMap == MetadataMap(ts1, targetWOs)
      ts2 == FilterOut(ts1, targetWOs)
      newRows ==
        [i \in 1..Len(data) |->
           ReplaceNewRow(data[i], i,
                         IF data[i].workOrder \in DOMAIN metadataMap
                           THEN metadataMap[data[i].workOrder]
                           ELSE DefaultMeta,
                         t)]
  IN ts2 \o newRows

(***************************************************************************)
(* importShortages, merge policy.                                          *)
(***************************************************************************)
\* the composite string key `${workOrder}-${partNumber}`
Key(wo, pn) == wo \o "-" \o pn

RowKey(row) == Key(row.workOrder, row.partNumber)

\* existingMap.get(key): Map.set overwrites, so the last row with the key
\* is the one the map holds; 0 if none
ExistingIndex(ts, key) ==
  IF \E k \in 1..Len(ts) : RowKey(ts[k]) = key
    THEN CHOOSE k \in 1..Len(ts) :
           /\ RowKey(ts[k]) = key
           /\ \A j \in (k + 1)..Len(ts) : RowKey(ts[j]) # key
    ELSE 0

\* Mutant of MergeUpdate: the update treats the row as a fresh shortage.
MergeUpdateResets(existing, d) ==
  [existing EXCEPT
     !.shortageQty = d.shortageQty,
     !.purchaserReplyDate = "",
     !.status = IF d.shortageQty = 0 THEN "Ready" ELSE "Pending"]

\* an incoming record whose key is in existingMap: quantity only
MergeUpdate(existing, d) ==
  [existing EXCEPT
     !.shortageQty = d.shortageQty,
     !.status = IF d.shortageQty = 0 THEN "Ready" ELSE existing.status]

DefaultSibling ==
  [model |-> "Unknown", vendor |-> "", stage |-> "SMT",
   productionDate |-> "", productPartNumber |-> ""]

\* Mutant of SiblingMeta: a new row never inherits.
SiblingMetaDefault(cur, wo) == DefaultSibling

\* sibling || { model: 'Unknown', ... }: the first row of the work order
\* in the schedule as it stands, else the defaults
SiblingMeta(cur, wo) ==
  IF FirstRowOf(cur, wo) # 0 THEN cur[FirstRowOf(cur, wo)] ELSE DefaultSibling

\* an incoming record whose key is not in existingMap: a new row
MergeAdd(d, meta, t, r) ==
  [id |-> <<"track-merge", t, r>>,
   model |-> meta.model,
   workOrder |-> d.workOrder,
   partNumber |-> d.partNumber,
   partName |-> d.partName,
   specification |-> d.specification,
   supplier |-> d.supplier,
   shortageQty |-> d.shortageQty,
   stage |-> meta.stage,
   vendor |-> meta.vendor,
   productPartNumber |-> meta.productPartNumber,
   productionDate |-> meta.productionDate,
   oqcDate |-> "",
   isMaterialReady |-> FALSE,
   purchaserReplyDate |-> "",
   purchaserRemark |-> "",
   status |-> "Pending",
   purchaserUsername |-> "",
   isArchived |-> FALSE]

\* data.forEach of the merge branch from record i on: ts0 is the schedule
\* existingMap was built from, cur the schedule as mutated so far, r the
\* number of random values drawn
RECURSIVE MergeLoop(_, _, _, _, _, _)
MergeLoop(ts0, cur, data, i, t, r) ==
  IF i > Len(data) THEN [rows |-> cur, rnd |-> r]
  ELSE
    LET d == data[i]
        e == ExistingIndex(ts0, Key(d.workOrder, d.partNumber))
        meta == SiblingMeta(cur, d.workOrder)
    IN IF e # 0
         THEN MergeLoop(ts0, [cur EXCEPT ![e] = MergeUpdate(cur[e], d)],
                        data, i + 1, t, r)
         ELSE MergeLoop(ts0, Append(cur, MergeAdd(d, meta, t, r)),
                        data, i + 1, t, r + 1)

IncomingKeys(data) ==
  {Key(data[i].workOrder, data[i].partNumber) : i \in 1..Len(data)}

\* Mutant of Sweep: absence from the batch resolves a row of any work order.
SweepEveryWorkOrder(ts, data) ==
  [k \in 1..Len(ts) |->
     IF /\ Key(ts[k].workOrder, ts[k].partNumber) \notin IncomingKeys(data)
        /\ ts[k].partNumber # SKELETON
       THEN [ts[k] EXCEPT !.shortageQty = 0, !.status = "Ready"]
       ELSE ts[k]]

\* the resolution sweep over the whole schedule
Sweep(ts, data) ==
  [k \in 1..Len(ts) |->
     IF /\ ts[k].workOrder \in TargetWOs(data)
        /\ RowKey(ts[k]) \notin IncomingKeys(data)
        /\ ts[k].partNumber # SKELETON
       THEN [ts[k] EXCEPT !.shortageQty = 0, !.status = "Ready"]
       ELSE ts[k]]

MergeBranch(ts, data, t, r) ==
  LET looped == MergeLoop(ts, ts, data, 1, t, r)
  IN [rows |-> Sweep(looped.rows, data), rnd |-> looped.rnd]

(***************************************************************************)
(* importWODetails.                                                        *)
(***************************************************************************)
\* let s = info.stage?.trim() || 'SMT', then the three label rewrites
NormalizeStage(stage) ==
  LET s == OrElse(IF stage = Undefined THEN Undefined ELSE Trim(stage), "SMT")
  IN CASE s = LabelSMT -> "SMT"
       [] s = LabelAssembly -> "Assembly"
       [] s = LabelPacking -> "Packing"
       [] OTHER -> s

Skeleton(info, s, t, r) ==
  [id |-> <<"skel", t, r>>,
   model |-> info.model,
   workOrder |-> info.workOrder,
   vendor |-> info.vendor,
   stage |-> s,
   productPartNumber |-> info.productPartNumber,
   productionDate |-> info.productionDate,
   partNumber |-> SKELETON,
   partName |-> "",
   specification |-> "",
   supplier |-> "",
   shortageQty |-> 0,
   oqcDate |-> "",
   isMaterialReady |-> FALSE,
   purchaserReplyDate |-> "",
   purchaserRemark |-> "",
   status |-> "Ready",
   purchaserUsername |-> "",
   isArchived |-> FALSE]

\* the five guarded assignments on an existing row of the work order
MergeMetadata(row, info, s) ==
  [row EXCEPT
     !.model = IF Truthy(info.model) THEN info.model ELSE row.model,
     !.vendor = IF Truthy(info.vendor) THEN info.vendor ELSE row.vendor,
     !.productPartNumber = IF Truthy(info.productPartNumber)
                             THEN info.productPartNumber
                             ELSE row.productPartNumber,
     !.productionDate = IF Truthy(info.productionDate)
                          THEN info.productionDate
                          ELSE row.productionDate,
     !.stage = IF Truthy(info.stage) THEN s ELSE row.stage]

\* data.forEach from record i on: cur the schedule so far, r the number of
\* random values drawn, count the value of updatedCount
RECURSIVE WODetailsLoop(_, _, _, _, _, _)
WODetailsLoop(cur, data, i, t, r, count) ==
  IF i > Len(data) THEN [rows |-> cur, rnd |-> r, updatedCount |-> count]
  ELSE
    LET info == data[i]
        exists == FirstRowOf(cur, info.workOrder) # 0
        s == NormalizeStage(info.stage)
        hit == {k \in 1..Len(cur) : cur[k].workOrder = info.workOrder}
    IN IF ~exists
         THEN WODetailsLoop(Append(cur, Skeleton(info, s, t, r)),
                            data, i + 1, t, r + 1, count + 1)
         ELSE WODetailsLoop(
                [k \in 1..Len(cur) |->
                   IF k \in hit THEN MergeMetadata(cur[k], info, s) ELSE cur[k]],
                data, i + 1, t, r, count + Cardinality(hit))

\* Mutant of WODetailsChanged: the import always reports success.
WODetailsChangedAlways(count) == count >= 0

\* if (updatedCount > 0) { this.save(); return true } return false
WODetailsChanged(count) == count > 0

(***************************************************************************)
(* executeImport, work-order branch: one parsed record per spreadsheet row.*)
(* A spreadsheet row is a record of cells, Undefined where the cell or the *)
(* column is missing; the two header spellings the parser accepts for a    *)
(* column are one field here.                                              *)
(***************************************************************************)
\* (cell || '').toString().trim()
CellText(cell) == Trim(OrElse(cell, ""))

\* formatDateForInput on the date cells in use
formatDateForInput(dateStr) ==
  CASE ~Truthy(dateStr) -> ""
    [] dateStr = "2024/12/1" -> "2024-12-01"
    [] dateStr = "2024-12-01" -> "2024-12-01"
    [] OTHER -> ""

ParseWORow(row) ==
  [workOrder |-> CellText(row.workOrder),
   model |-> CellText(row.model),
   vendor |-> CellText(row.vendor),
   stage |-> Trim(OrElse(row.stage, "SMT")),
   productPartNumber |-> CellText(row.productPartNumber),
   productionDate |-> formatDateForInput(row.productionDate)]

\* jsonData.map(...).filter(r => r.workOrder)
ParseWOSheet(rows) ==
  SelectSeq([k \in 1..Len(rows) |-> ParseWORow(rows[k])],
            LAMBDA r : Truthy(r.workOrder))

(***************************************************************************)
(* Row mutators.                                                           *)
(***************************************************************************)
SetDeliveryDate(row, newDate) ==
  LET r1 == [row EXCEPT !.purchaserReplyDate = newDate]
  IN [r1 EXCEPT !.status = calculateStatus(r1)]

SetStageDate(row, newDate) ==
  LET r1 == [row EXCEPT !.oqcDate = newDate]
  IN [r1 EXCEPT !.status = calculateStatus(r1)]

\* Mutant of SetStageReady: the flag is set, the status is not recomputed.
SetStageReadyFlagOnly(row, isReady) == [row EXCEPT !.isMaterialReady = isReady]

SetStageReady(row, isReady) ==
  LET r1 == [row EXCEPT !.isMaterialReady = isReady]
  IN [r1 EXCEPT !.status = calculateStatus(r1)]

\* Mutant of SetArchived: archiving flips the flag.
SetArchivedToggle(row, isArchived) ==
  [row EXCEPT !.isArchived = IF isArchived THEN ~row.isArchived ELSE FALSE]

\* row.isArchived = isArchived
SetArchived(row, isArchived) == [row EXCEPT !.isArchived = isArchived]

\* the rows a stage-wide mutator touches
StageRows(ts, wo, stage) ==
  {k \in 1..Len(ts) : ts[k].workOrder = wo /\ ts[k].stage = stage}

\* updateStageReady's forEach over the schedule
StageReadyRows(ts, workOrder, stage, isReady) ==
  [k \in 1..Len(ts) |->
     IF k \in StageRows(ts, workOrder, stage)
       THEN SetStageReady(ts[k], isReady) ELSE ts[k]]

\* Mutant of ModelRows: the model names are compared as they are.
ModelRowsExact(ts, modelName) ==
  {k \in 1..Len(ts) : ts[k].model = modelName}

\* the rows archiveModel touches
ModelRows(ts, modelName) ==
  {k \in 1..Len(ts) :
     ToLowerCase(Trim(ts[k].model)) = ToLowerCase(Trim(modelName))}

(***************************************************************************)
(* The state after construction.  Nothing is stored yet, so the            *)
(* constructor takes INITIAL_DB: no tracking rows and the built-in admin.  *)
(* The persisted blob is <<>> while the storage key is unset and <<blob>>  *)
(* once save() has run.                                                    *)
(***************************************************************************)
INITIAL_DB ==
  [trackingSchedule |-> <<>>,
   usersRoles |-> <<[username |-> "admin", role |-> "Admin"]>>]

NoCall == [name |-> "constructor", args |-> <<>>]

NoInstance == [closed |-> TRUE]   \* the second tab is not open

\* the calls in flight once this one has run
Remove(calls, call) ==
  LET hit == {i \in 1..Len(calls) :
                calls[i].name = call.name /\ calls[i].args = call.args}
      first == CHOOSE i \in hit : \A j \in hit : i <= j
  IN IF hit = {} THEN calls
     ELSE [i \in 1..(Len(calls) - 1) |->
             IF i < first THEN calls[i] ELSE calls[i + 1]]

Init ==
  /\ db = INITIAL_DB
  /\ store = <<>>
  /\ pre = INITIAL_DB
  /\ preStore = <<>>
  /\ op = NoCall
  /\ ret = TRUE
  /\ now = 0
  /\ rnd = 0
  /\ nops = 0
  /\ other = NoInstance
  /\ pending = <<>>
  /\ ref = <<>>

\* Mutant of Saved: with another call in flight the write is left for later.
SavedLater(d) == IF Len(pending) > 1 THEN store ELSE <<Stringify(d)>>

\* save(): localStorage.setItem('mock_sheet_db', JSON.stringify(this.db))
Saved(d) == <<Stringify(d)>>

\* One call of a service method: the schedule it leaves, whether it called
\* save(), what it returned and how many random values it had drawn.
Call(name, args, rows, saves, result, r) ==
  /\ pre' = db
  /\ preStore' = store
  /\ op' = [name |-> name, args |-> args]
  /\ db' = [db EXCEPT !.trackingSchedule = rows]
  /\ store' = IF saves THEN Saved([db EXCEPT !.trackingSchedule = rows]) ELSE store
  /\ ret' = result
  /\ rnd' = r
  /\ nops' = nops + 1
  /\ pending' = Remove(pending, [name |-> name, args |-> args])
  /\ UNCHANGED <<now, other, ref>>

\* Time passes between two calls.
Tick ==
  /\ now < MaxClock
  /\ now' = now + 1
  /\ UNCHANGED <<db, store, pre, preStore, op, ret, rnd, nops,
                 other, pending, ref>>

importShortages(data, mode) ==
  LET ts == db.trackingSchedule
      merged == MergeBranch(ts, data, now, rnd)
  IN IF mode = "replace"
       THEN Call("importShortages", <<data, mode>>,
                 ReplaceBranch(ts, data, now), TRUE, TRUE, rnd)
       ELSE Call("importShortages", <<data, mode>>,
                 merged.rows, TRUE, TRUE, merged.rnd)

importWODetails(data) ==
  LET res == WODetailsLoop(db.trackingSchedule, data, 1, now, rnd, 0)
  IN Call("importWODetails", <<data>>, res.rows,
          WODetailsChanged(res.updatedCount),
          WODetailsChanged(res.updatedCount), res.rnd)

\* the upload handler on a work-order sheet: parse, then importWODetails
executeImportWO(sheet) ==
  LET res == WODetailsLoop(db.trackingSchedule, ParseWOSheet(sheet),
                           1, now, rnd, 0)
  IN Call("executeImport", <<sheet, "wo">>, res.rows,
          WODetailsChanged(res.updatedCount),
          WODetailsChanged(res.updatedCount), res.rnd)

updateDeliveryDate(rowId, newDate) ==
  LET ts == db.trackingSchedule
      k == FirstRowWithId(ts, rowId)
  IN IF k # 0
       THEN Call("updateDeliveryDate", <<rowId, newDate>>,
                 [ts EXCEPT ![k] = SetDeliveryDate(ts[k], newDate)],
                 TRUE, TRUE, rnd)
       ELSE Call("updateDeliveryDate", <<rowId, newDate>>, ts, FALSE, FALSE, rnd)

updatePurchaserRemark(rowId, remark) ==
  LET ts == db.trackingSchedule
      k == FirstRowWithId(ts, rowId)
  IN IF k # 0
       THEN Call("updatePurchaserRemark", <<rowId, remark>>,
                 [ts EXCEPT ![k].purchaserRemark = remark], TRUE, TRUE, rnd)
       ELSE Call("updatePurchaserRemark", <<rowId, remark>>, ts, FALSE, FALSE, rnd)

updateStageDate(workOrder, stage, newDate) ==
  LET ts == db.trackingSchedule
      hit == StageRows(ts, workOrder, stage)
  IN Call("updateStageDate", <<workOrder, stage, "oqcDate", newDate>>,
          [k \in 1..Len(ts) |->
             IF k \in hit THEN SetStageDate(ts[k], newDate) ELSE ts[k]],
          hit # {}, hit # {}, rnd)

updateStageReady(workOrder, stage, isReady) ==
  LET ts == db.trackingSchedule
      hit == StageRows(ts, workOrder, stage)
  IN Call("updateStageReady", <<workOrder, stage, isReady>>,
          StageReadyRows(ts, workOrder, stage, isReady),
          hit # {}, hit # {}, rnd)

archiveModel(modelName, isArchived) ==
  LET ts == db.trackingSchedule
      hit == ModelRows(ts, modelName)
  IN Call("archiveModel", <<modelName, isArchived>>,
          [k \in 1..Len(ts) |->
             IF k \in hit THEN SetArchived(ts[k], isArchived) ELSE ts[k]],
          TRUE, TRUE, rnd)

(***************************************************************************)
(* User accounts.                                                          *)
(***************************************************************************)
\* Mutant of FirstUserNamed: the usernames are compared as they are.
FirstUserNamedExact(us, username) ==
  LET hit == {k \in 1..Len(us) : us[k].username = username}
  IN IF hit = {} THEN 0 ELSE CHOOSE k \in hit : \A j \in hit : k <= j

\* usersRoles.find(u => u.username.toLowerCase() === username.toLowerCase()):
\* the index of the first match, 0 for none
FirstUserNamed(us, username) ==
  LET hit == {k \in 1..Len(us) :
                ToLowerCase(us[k].username) = ToLowerCase(username)}
  IN IF hit = {} THEN 0 ELSE CHOOSE k \in hit : \A j \in hit : k <= j

\* usersRoles.filter(u => u.username !== username)
WithoutUser(us, username) ==
  SelectSeq(us, LAMBDA u : u.username # username)

Null == [isNull |-> TRUE]   \* what login answers for an unknown username

\* One call of a user method: the user list it leaves, whether it called
\* save() and what it returned.
UserCall(name, args, us, saves, result) ==
  /\ pre' = db
  /\ preStore' = store
  /\ op' = [name |-> name, args |-> args]
  /\ db' = [db EXCEPT !.usersRoles = us]
  /\ store' = IF saves THEN Saved([db EXCEPT !.usersRoles = us]) ELSE store
  /\ ret' = result
  /\ nops' = nops + 1
  /\ pending' = Remove(pending, [name |-> name, args |-> args])
  /\ UNCHANGED <<now, rnd, other, ref>>

login(username) ==
  LET us == db.usersRoles
      k == FirstUserNamed(us, username)
  IN UserCall("login", <<username>>, us, FALSE,
              IF k # 0 THEN [user |-> us[k], role |-> us[k].role] ELSE Null)

\* Mutant of addUser: the user is pushed before the duplicate test.
addUserPushFirst(user) ==
  LET us == db.usersRoles
      fresh == FirstUserNamed(us, user.username) = 0
  IN UserCall("addUser", <<user>>, Append(us, user), fresh, fresh)

addUser(user) ==
  LET us == db.usersRoles
  IN IF FirstUserNamed(us, user.username) # 0
       THEN UserCall("addUser", <<user>>, us, FALSE, FALSE)
       ELSE UserCall("addUser", <<user>>, Append(us, user), TRUE, TRUE)

deleteUser(username) ==
  LET us == db.usersRoles
      success == Len(WithoutUser(us, username)) < Len(us)
  IN UserCall("deleteUser", <<username>>, WithoutUser(us, username),
              success, success)

\* searchTracking: reload this.db from the persisted blob, if there is one,
\* and answer the whole schedule (the query is ignored)
searchTracking(workOrder) ==
  /\ pre' = db
  /\ preStore' = store
  /\ op' = [name |-> "searchTracking", args |-> <<workOrder>>]
  /\ db' = IF store # <<>> THEN Parse(store[1]) ELSE db
  /\ ret' = (IF store # <<>> THEN Parse(store[1]) ELSE db).trackingSchedule
  /\ nops' = nops + 1
  /\ pending' = Remove(pending, [name |-> "searchTracking", args |-> <<workOrder>>])
  /\ UNCHANGED <<store, now, rnd, other, ref>>

(***************************************************************************)
(* Inputs.                                                                 *)
(***************************************************************************)
SeqsUpTo(S, n) == UNION {[1..k -> S] : k \in 0..n}

\* A shortage record; the descriptive columns are those of the upload
\* template.
Shortage(wo, pn, qty, model) ==
  [workOrder |-> wo, partNumber |-> pn, shortageQty |-> qty, model |-> model,
   partName |-> "RES 10K", specification |-> "0402", supplier |-> "Yageo"]

\* A work-order record; Undefined stands for a property the caller left out.
WODetail(wo, model, vendor, stage, ppn, date) ==
  [workOrder |-> wo, model |-> model, vendor |-> vendor, stage |-> stage,
   productPartNumber |-> ppn, productionDate |-> date]

\* Two work orders and two part numbers whose composite string keys meet:
\* Key("WO-1", "X-PN-1") = Key("WO-1-X", "PN-1").
WorkOrders == {"WO-1", "WO-1-X"}
PartNumbers == {"PN-1", "X-PN-1"}
Quantities == {0, 5}

ShortageRecords ==
  {Shortage(w, p, q, Undefined) :
     w \in WorkOrders, p \in PartNumbers, q \in Quantities}
  \cup {Shortage("WO-1", "PN-1", 5, "ModelC")}

WODetailShapes(wo) ==
  {WODetail(wo, "ModelA", "VendorX", "SMT", Undefined, Undefined),
   WODetail(wo, "ModelB", "VendorY", Pad("zu-zhuang"), "P-1", "2024-12-01"),
   WODetail(wo, "", "VendorZ", Undefined, Undefined, Undefined),
   WODetail(wo, "ModelA", "VendorX", "Line-3", Undefined, "")}

WODetailRecords == UNION {WODetailShapes(w) : w \in WorkOrders}

\* spreadsheet rows of a work-order sheet: a full row and one that fills
\* in the vendor column only
WOSheetRows ==
  UNION {{WODetail(w, "ModelB", "VendorY", "zu-zhuang", "P-1", "2024/12/1"),
          WODetail(w, Undefined, "VendorZ", Undefined, Undefined, Undefined)} :
         w \in WorkOrders}

Modes == {"replace", "merge"}

(***************************************************************************)
(* Spec: the imports, on batches of up to MaxBatch records.                *)
(***************************************************************************)
Next ==
  \/ Tick
  \/ \E data \in SeqsUpTo(ShortageRecords, MaxBatch), mode \in Modes :
       nops < MaxOps /\ importShortages(data, mode)
  \/ \E data \in SeqsUpTo(WODetailRecords, MaxBatch) :
       nops < MaxOps /\ importWODetails(data)
  \/ \E sheet \in SeqsUpTo(WOSheetRows, MaxBatch) :
       nops < MaxOps /\ executeImportWO(sheet)

Spec == Init /\ [][Next]_vars

(***************************************************************************)
(* FlowSpec: the tracking workflow on one work order: its metadata import, *)
(* shortage imports of at most one record (and of one key twice), and the  *)
(* row mutators.                                                           *)
(***************************************************************************)
BatchesOfOne(S) == {<<>>} \cup {<<x>> : x \in S}

FlowWODetails == {WODetail("WO-1", "ModelA", "VendorX", "SMT", Undefined, Undefined)}

FlowShortages ==
  {Shortage("WO-1", "PN-1", 5, Undefined),
   Shortage("WO-1", "PN-1", 0, Undefined),
   Shortage("WO-1", "PN-2", 3, Undefined)}

\* the batches of FlowSpec: none or one record, and one batch that names
\* PN-1 twice
FlowBatches ==
  BatchesOfOne(FlowShortages)
  \cup {<<Shortage("WO-1", "PN-1", 0, Undefined),
          Shortage("WO-1", "PN-1", 5, Undefined)>>}

NoSuchRow == <<"track", -1, 0>>

RowIds == {db.trackingSchedule[k].id : k \in 1..Len(db.trackingSchedule)}

FlowNext ==
  \/ Tick
  \/ \E data \in FlowBatches, mode \in Modes :
       nops < MaxFlowOps /\ importShortages(data, mode)
  \/ \E data \in BatchesOfOne(FlowWODetails) :
       nops < MaxFlowOps /\ importWODetails(data)
  \/ \E rowId \in RowIds \cup {NoSuchRow} :
       nops < MaxFlowOps /\ updateDeliveryDate(rowId, "2024-12-05")
  \/ \E rowId \in RowIds \cup {NoSuchRow} :
       nops < MaxFlowOps /\ updatePurchaserRemark(rowId, "on order")
  \/ \E stage \in {"SMT", "Packing"} :
       nops < MaxFlowOps /\ updateStageDate("WO-1", stage, "2024-12-20")
  \/ \E stage \in {"SMT", "Packing"}, isReady \in BOOLEAN :
       nops < MaxFlowOps /\ updateStageReady("WO-1", stage, isReady)
  \/ \E isArchived \in BOOLEAN :
       nops < MaxFlowOps /\ archiveModel(Pad("MODELA"), isArchived)
  \/ nops < MaxFlowOps /\ searchTracking("")

FlowSpec == Init /\ [][FlowNext]_vars

(***************************************************************************)
(* AccessSpec: the user accounts and login among the row mutators, on the  *)
(* rows of two work orders in two stages.                                  *)
(***************************************************************************)
AccessWODetails ==
  {WODetail("WO-1", "ModelA", "VendorX", "SMT", Undefined, Undefined),
   WODetail("WO-2", "ModelB", "VendorY", LabelAssembly, "P-1", "2024-12-01")}

\* the (workOrder, stage) groups the stage-wide mutators are called on
StageGroups == {<<"WO-1", "SMT">>, <<"WO-1", "Packing">>, <<"WO-2", "Assembly">>}

Usernames == {"admin", "Admin", "amy"}

Users ==
  {[username |-> "Admin", role |-> "Scheduler"],
   [username |-> "amy", role |-> "Purchaser"],
   [username |-> "Amy", role |-> "Business"]}

AccessNext ==
  \/ \E data \in BatchesOfOne(AccessWODetails) :
       nops < MaxAccessOps /\ importWODetails(data)
  \/ nops < MaxAccessOps
       /\ importShortages(<<Shortage("WO-1", "PN-1", 5, Undefined)>>, "merge")
  \/ \E rowId \in RowIds \cup {NoSuchRow} :
       nops < MaxAccessOps /\ updateDeliveryDate(rowId, "2024-12-05")
  \/ \E rowId \in RowIds \cup {NoSuchRow} :
       nops < MaxAccessOps /\ updatePurchaserRemark(rowId, "on order")
  \/ \E g \in StageGroups :
       nops < MaxAccessOps /\ updateStageDate(g[1], g[2], "2024-12-20")
  \/ \E g \in StageGroups, isReady \in BOOLEAN :
       nops < MaxAccessOps /\ updateStageReady(g[1], g[2], isReady)
  \/ \E isArchived \in BOOLEAN :
       nops < MaxAccessOps /\ archiveModel(Pad("MODELA"), isArchived)
  \/ \E username \in Usernames : nops < MaxAccessOps /\ login(username)
  \/ \E user \in Users : nops < MaxAccessOps /\ addUser(user)
  \/ \E username \in Usernames : nops < MaxAccessOps /\ deleteUser(username)

AccessSpec == Init /\ [][AccessNext]_vars

(***************************************************************************)
(* BatchSpec: replace imports of up to MaxBatch records over two work      *)
(* orders, among merge imports and metadata imports of one record, all     *)
(* within one tick of the clock.                                           *)
(***************************************************************************)
BatchWODetails ==
  {WODetail("WO-1", "ModelA", "VendorX", "SMT", Undefined, Undefined),
   WODetail("WO-2", "ModelB", "VendorY", LabelAssembly, "P-1", "2024-12-01")}

BatchShortages ==
  {Shortage("WO-1", "PN-1", 5, Undefined),
   Shortage("WO-1", "PN-2", 0, Undefined),
   Shortage("WO-2", "PN-1", 3, "ModelC"),
   Shortage("WO-2", "PN-9", 3, Undefined)}

BatchNext ==
  \/ \E data \in SeqsUpTo(BatchShortages, MaxBatch) :
       nops < MaxOps /\ importShortages(data, "replace")
  \/ \E data \in BatchesOfOne(BatchShortages) :
       nops < MaxOps /\ importShortages(data, "merge")
  \/ \E data \in BatchesOfOne(BatchWODetails) :
       nops < MaxOps /\ importWODetails(data)

BatchSpec == Init /\ [][BatchNext]_vars

(***************************************************************************)
(* TabSpec: two instances of the service, one per browser tab, on the one  *)
(* persisted blob.  db is the database of the tab that is in front and     *)
(* other that of the tab behind it; both tabs read and write store.        *)
(***************************************************************************)
MaxTabOps == 3   \* calls per behaviour of TabSpec

\* the constructor runs in a second tab
OpenTab ==
  /\ other = NoInstance
  /\ other' = IF store # <<>> THEN Parse(store[1]) ELSE INITIAL_DB
  /\ UNCHANGED <<db, store, pre, preStore, op, ret, now, rnd, nops,
                 pending, ref>>

\* the user brings the other tab to the front
SwitchTab ==
  /\ other # NoInstance
  /\ db' = other
  /\ other' = db
  /\ pre' = other
  /\ preStore' = store
  /\ op' = [name |-> "switchTab", args |-> <<>>]
  /\ ret' = Null
  /\ UNCHANGED <<store, now, rnd, nops, pending, ref>>

TabShortages ==
  <<Shortage("WO-1", "PN-1", 5, Undefined),
    Shortage("WO-1", "PN-2", 3, Undefined)>>

TabNext ==
  \/ OpenTab
  \/ SwitchTab
  \/ nops < MaxTabOps /\ importShortages(TabShortages, "merge")
  \/ \E rowId \in RowIds :
       nops < MaxTabOps /\ updateDeliveryDate(rowId, "2024-12-05")
  \/ \E rowId \in RowIds :
       nops < MaxTabOps /\ updatePurchaserRemark(rowId, "on order")
  \/ nops < MaxTabOps /\ searchTracking("")

TabSpec == Init /\ [][TabNext]_vars

(***************************************************************************)
(* AsyncSpec: the caller does not await.  A call is invoked and, once its  *)
(* delay has elapsed, its body runs in one step; a method without a delay  *)
(* runs its body within the invocation.  The timers of calls with the same *)
(* delay fire in invocation order, and a call with a shorter delay may     *)
(* overtake one with a longer delay.  ref follows the same invocations     *)
(* with every body run at its invocation.                                  *)
(***************************************************************************)
MaxAsyncOps == 3   \* calls invoked per behaviour of AsyncSpec

\* the milliseconds a method waits before its body
Delay(name) ==
  CASE name = "login" -> 600
    [] name \in {"importShortages", "importWODetails"} -> 500
    [] name = "searchTracking" -> 100
    [] OTHER -> 0

\* the tracking rows a call's body leaves when it runs on the rows ts
Effect(call, ts) ==
  CASE call.name = "importShortages" ->
         IF call.args[2] = "replace"
           THEN ReplaceBranch(ts, call.args[1], now)
           ELSE MergeBranch(ts, call.args[1], now, rnd).rows
    [] call.name = "importWODetails" ->
         WODetailsLoop(ts, call.args[1], 1, now, rnd, 0).rows
    [] call.name = "updateStageReady" ->
         StageReadyRows(ts, call.args[1], call.args[2], call.args[3])
    [] OTHER -> ts

\* the caller invokes a method
Invoke(call) ==
  /\ nops + Len(pending) < MaxAsyncOps
  /\ \A i \in 1..Len(pending) : Delay(pending[i].name) > 0
  /\ pending' = Append(pending, call)
  /\ ref' = Effect(call, ref)
  /\ UNCHANGED <<db, store, pre, preStore, op, ret, now, rnd, nops, other>>

\* the pending calls of a method whose body can run next
Due(name) ==
  {i \in 1..Len(pending) :
     /\ pending[i].name = name
     /\ \A j \in 1..Len(pending) : j # i => Delay(pending[j].name) > 0
     /\ \A j \in 1..(i - 1) : Delay(pending[j].name) > Delay(name)}

AsyncCalls ==
  {[name |-> "importWODetails",
    args |-> <<<<WODetail("WO-1", "ModelA", "VendorX", "SMT", Undefined, Undefined)>>>>],
   [name |-> "importShortages",
    args |-> <<<<Shortage("WO-1", "PN-1", 5, Undefined)>>, "merge">>],
   [name |-> "importShortages",
    args |-> <<<<Shortage("WO-1", "PN-1", 0, Undefined)>>, "replace">>],
   [name |-> "updateStageReady", args |-> <<"WO-1", "SMT", TRUE>>],
   [name |-> "searchTracking", args |-> <<"">>],
   [name |-> "login", args |-> <<"admin">>]}

AsyncNext ==
  \/ \E call \in AsyncCalls : Invoke(call)
  \/ \E i \in Due("importShortages") :
       importShortages(pending[i].args[1], pending[i].args[2])
  \/ \E i \in Due("importWODetails") : importWODetails(pending[i].args[1])
  \/ \E i \in Due("updateStageReady") :
       updateStageReady(pending[i].args[1], pending[i].args[2], pending[i].args[3])
  \/ \E i \in Due("searchTracking") : searchTracking(pending[i].args[1])
  \/ \E i \in Due("login") : login(pending[i].args[1])

AsyncSpec == Init /\ [][AsyncNext]_vars

(***************************************************************************)
(* Vocabulary of the properties.                                           *)
(***************************************************************************)
Rows == db.trackingSchedule
PreRows == pre.trackingSchedule

IsCall(name) == op.name = name
IsImport(mode) == op.name = "importShortages" /\ op.args[2] = mode
Batch == op.args[1]

RowsOf(ts, w) == SelectSeq(ts, LAMBDA row : row.workOrder = w)
RecordsOf(data, w) == SelectSeq(data, LAMBDA d : d.workOrder = w)

\* an absent optional property and an empty one are the same metadata
Text(s) == OrElse(s, "")

\* some record of the batch has this (workOrder, partNumber) pair
InBatch(data, wo, pn) ==
  \E i \in 1..Len(data) : data[i].workOrder = wo /\ data[i].partNumber = pn

(***************************************************************************)
(* C1.  Replace-policy import preserves metadata: every row of a work      *)
(* order W of the batch that had rows before the import carries the        *)
(* vendor, stage, productionDate and productPartNumber of the first        *)
(* pre-import row of W, and its model unless an incoming record of W       *)
(* supplies its own.                                                       *)
(***************************************************************************)
C1_ReplacePreservesMetadata ==
  IsImport("replace") =>
    \A k \in 1..Len(Rows) :
      LET row == Rows[k]
          f == FirstRowOf(PreRows, row.workOrder)
      IN (row.workOrder \in TargetWOs(Batch) /\ f # 0) =>
           /\ row.vendor = PreRows[f].vendor
           /\ row.stage = PreRows[f].stage
           /\ Text(row.productionDate) = Text(PreRows[f].productionDate)
           /\ Text(row.productPartNumber) = Text(PreRows[f].productPartNumber)
           /\ \/ row.model = PreRows[f].model
              \/ \E i \in 1..Len(Batch) :
                   /\ Batch[i].workOrder = row.workOrder
                   /\ Truthy(Batch[i].model)
                   /\ row.model = Batch[i].model

(***************************************************************************)
(* C2.  Replace-policy import: for every work order W of the batch, the    *)
(* rows of W afterwards are one row per incoming record of W, with its     *)
(* partNumber and shortageQty, in batch order; so no row W had before      *)
(* (skeleton or shortage) is left.                                         *)
(***************************************************************************)
C2_ReplaceExactRows ==
  IsImport("replace") =>
    \A w \in TargetWOs(Batch) :
      LET rows == RowsOf(Rows, w)
          recs == RecordsOf(Batch, w)
      IN /\ Len(rows) = Len(recs)
         /\ \A i \in 1..Len(rows) :
              /\ i <= Len(recs)
              /\ rows[i].partNumber = recs[i].partNumber
              /\ rows[i].shortageQty = recs[i].shortageQty

\* a replace import of two records of a work order that had a skeleton row
C2_Witness ==
  /\ IsImport("replace")
  /\ \E w \in TargetWOs(Batch) :
       /\ Len(RecordsOf(Batch, w)) = 2
       /\ \E k \in 1..Len(PreRows) :
            PreRows[k].workOrder = w /\ PreRows[k].partNumber = SKELETON

(***************************************************************************)
(* C3.  Merge-policy import preserves purchaser state: an existing row     *)
(* whose (workOrder, partNumber) pair is in the batch keeps its            *)
(* purchaserReplyDate, purchaserRemark, isMaterialReady, oqcDate,          *)
(* isArchived and id, and every other field but shortageQty and status;    *)
(* its status changes only to 'Ready', and only when the import wrote a    *)
(* quantity of 0.  (Merge only appends, so a row keeps its position.)      *)
(***************************************************************************)
FrameFields == RowFields \ {"shortageQty", "status"}

C4_MergeSweepResolves ==
  IsImport("merge") =>
    \A k \in 1..Len(PreRows) :
      PreRows[k].workOrder \in TargetWOs(Batch) =>
        IF PreRows[k].partNumber = SKELETON
          THEN Rows[k] = PreRows[k]
          ELSE ~InBatch(Batch, PreRows[k].workOrder, PreRows[k].partNumber) =>
                 Rows[k].shortageQty = 0 /\ Rows[k].status = "Ready"

(***************************************************************************)
(* The scenario of C5 and C6, on rows compared without their ids.          *)
(***************************************************************************)
WithoutId(row) == [f \in RowFields \ {"id"} |-> row[f]]

ScenarioDetail == WODetail("WO-1", "ModelA", "VendorX", "SMT", Undefined, Undefined)
ScenarioShortage == Shortage("WO-1", "PN-1", 5, Undefined)

ScenarioSkeleton ==
  [model |-> "ModelA", workOrder |-> "WO-1", vendor |-> "VendorX",
   stage |-> "SMT", productPartNumber |-> Undefined,
   productionDate |-> Undefined, partNumber |-> SKELETON, partName |-> "",
   specification |-> "", supplier |-> "", shortageQty |-> 0, oqcDate |-> "",
   isMaterialReady |-> FALSE, purchaserReplyDate |-> "",
   purchaserRemark |-> "", status |-> "Ready", purchaserUsername |-> "",
   isArchived |-> FALSE]

\* the schedule after the first step
AfterStepOne(ts) == Len(ts) = 1 /\ WithoutId(ts[1]) = ScenarioSkeleton

\* the schedule after the second step
AfterStepTwo(ts) ==
  /\ Len(ts) = 2
  /\ WithoutId(ts[1]) = ScenarioSkeleton
  /\ ts[2].workOrder = "WO-1"
  /\ ts[2].partNumber = "PN-1"
  /\ ts[2].shortageQty = 5
  /\ ts[2].status = "Pending"
  /\ ts[2].model = "ModelA"
  /\ ts[2].vendor = "VendorX"
  /\ ts[2].stage = "SMT"
  /\ ~ts[2].isMaterialReady
  /\ ts[2].purchaserReplyDate = ""

C6_ScenarioFirstTwoSteps ==
  /\ (IsCall("importWODetails") /\ Batch = <<ScenarioDetail>> /\ PreRows = <<>>)
       => AfterStepOne(Rows)
  /\ (IsImport("merge") /\ Batch = <<ScenarioShortage>> /\ AfterStepOne(PreRows))
       => /\ AfterStepTwo(Rows)
          /\ Rows[1] = PreRows[1]
          /\ Rows[2].model = Rows[1].model
          /\ Rows[2].vendor = Rows[1].vendor
          /\ Rows[2].stage = Rows[1].stage

\* both steps were taken, starting from the empty schedule
C6_Witness ==
  /\ nops = 2
  /\ IsImport("merge")
  /\ Batch = <<ScenarioShortage>>
  /\ AfterStepOne(PreRows)
  /\ AfterStepTwo(Rows)

(***************************************************************************)
(* C7.  Key uniqueness under merge semantics: if no two rows share a       *)
(* (workOrder, partNumber) pair before a merge import, no two rows share   *)
(* one after it, whatever the batch, a batch naming a key twice included.  *)
(***************************************************************************)
KeyUnique(ts) ==
  \A i, j \in 1..Len(ts) :
    (i # j) => ~(/\ ts[i].workOrder = ts[j].workOrder
                 /\ ts[i].partNumber = ts[j].partNumber)

C7_MergeKeepsKeysUnique ==
  (IsImport("merge") /\ KeyUnique(PreRows)) => KeyUnique(Rows)

(***************************************************************************)
(* C8.  For every work order W of the batch that had no row,               *)
(* importWODetails leaves exactly one row of W: a skeleton with the        *)
(* sentinel partNumber, shortageQty 0, status 'Ready', not archived, with  *)
(* empty purchaser fields, carrying the metadata of the first record of W  *)
(* and a stage that is one of SMT, Assembly, Packing (SMT when the record  *)
(* gives none).                                                            *)
(***************************************************************************)
C8_OneSkeletonPerNewWorkOrder ==
  IsCall("importWODetails") =>
    \A w \in TargetWOs(Batch) :
      FirstRowOf(PreRows, w) = 0 =>
        LET rows == RowsOf(Rows, w)
            first == RecordsOf(Batch, w)[1]
        IN /\ Len(rows) = 1
           /\ rows[1].partNumber = SKELETON
           /\ rows[1].shortageQty = 0
           /\ rows[1].status = "Ready"
           /\ ~rows[1].isArchived
           /\ ~rows[1].isMaterialReady
           /\ rows[1].purchaserReplyDate = ""
           /\ rows[1].purchaserRemark = ""
           /\ rows[1].purchaserUsername = ""
           /\ rows[1].model = first.model
           /\ rows[1].vendor = first.vendor
           /\ Text(rows[1].productPartNumber) = Text(first.productPartNumber)
           /\ Text(rows[1].productionDate) = Text(first.productionDate)
           /\ rows[1].stage \in Stages
           /\ ~Truthy(first.stage) => rows[1].stage = "SMT"

(***************************************************************************)
(* C9.  A work-order import, through the service or through the upload     *)
(* handler, changes model, vendor, productPartNumber, productionDate or    *)
(* stage on an existing row only when a record of the row's work order     *)
(* supplies a non-empty value for that field; a field every such record    *)
(* leaves absent or empty keeps its value, stage included.  Stated for the *)
(* rows whose stage is one of the three stages.                            *)
(***************************************************************************)
MetadataFields ==
  {"model", "vendor", "productPartNumber", "productionDate", "stage"}

C9_PartialRecordKeepsMetadata ==
  (IsCall("importWODetails") \/ IsCall("executeImport")) =>
    \A k \in 1..Len(PreRows) :
      \A f \in MetadataFields :
        (/\ PreRows[k].stage \in Stages
         /\ \A i \in 1..Len(Batch) :
              Batch[i].workOrder = PreRows[k].workOrder => ~Truthy(Batch[i][f]))
          => Rows[k][f] = PreRows[k][f]

C11_ReplaceDiscardsPurchaserState ==
  IsImport("replace") =>
    /\ \A k \in 1..Len(Rows) :
         Rows[k].workOrder \in TargetWOs(Batch) =>
           /\ Rows[k].purchaserReplyDate = ""
           /\ Rows[k].purchaserRemark = ""
           /\ Rows[k].oqcDate = ""
           /\ ~Rows[k].isMaterialReady
           /\ ~Rows[k].isArchived
           /\ Rows[k].status = "Pending"
    /\ ret = TRUE
    /\ store = <<Stringify(db)>>

\* a replace import over a row that held a reply date and status
\* 'Confirmed', with a record of quantity 0
C11_Witness ==
  /\ IsImport("replace")
  /\ \E k \in 1..Len(PreRows) :
       /\ PreRows[k].workOrder \in TargetWOs(Batch)
       /\ PreRows[k].purchaserReplyDate # ""
       /\ PreRows[k].status = "Confirmed"
  /\ \E i \in 1..Len(Batch) : Batch[i].shortageQty = 0

(***************************************************************************)
(* C12.  Replace-policy import for a work order with no prior rows uses    *)
(* the defaults: every row of such a work order has the record's model, or *)
(* 'Unknown' when the record has none, vendor '', stage 'SMT' and an empty *)
(* productionDate and productPartNumber.  The scenario is the import of    *)
(* {WO-2, PN-9, qty 3} when no row of WO-2 exists.                         *)
(***************************************************************************)
C12_ReplaceDefaults ==
  IsImport("replace") =>
    \A w \in TargetWOs(Batch) :
      FirstRowOf(PreRows, w) = 0 =>
        LET rows == RowsOf(Rows, w)
            recs == RecordsOf(Batch, w)
        IN /\ Len(rows) = Len(recs)
           /\ \A k \in 1..Len(rows) :
                /\ rows[k].model = OrElse(recs[k].model, "Unknown")
                /\ rows[k].vendor = ""
                /\ rows[k].stage = "SMT"
                /\ rows[k].productionDate = ""
                /\ rows[k].productPartNumber = ""

\* the scenario: {WO-2, PN-9, qty 3} arrives while other rows exist and
\* none of them is of WO-2
C12_Witness ==
  /\ IsImport("replace")
  /\ Batch = <<Shortage("WO-2", "PN-9", 3, Undefined)>>
  /\ Len(PreRows) > 0
  /\ FirstRowOf(PreRows, "WO-2") = 0
  /\ \E k \in 1..Len(Rows) :
       Rows[k].partNumber = "PN-9" /\ Rows[k].model = "Unknown"

(***************************************************************************)
(* The rows the last call of a status-recomputing mutator touched: the     *)
(* first row with the given id, or the rows of the given work order and    *)
(* stage.                                                                  *)
(***************************************************************************)
Recomputes ==
  IsCall("updateDeliveryDate") \/ IsCall("updateStageDate")
    \/ IsCall("updateStageReady")

Touched ==
  IF IsCall("updateDeliveryDate")
    THEN {k \in 1..Len(PreRows) : k = FirstRowWithId(PreRows, op.args[1])}
    ELSE StageRows(PreRows, op.args[1], op.args[2])

(***************************************************************************)
(* C13.  A row with shortageQty = 0 is resolved once its status is         *)
(* recomputed: after updateDeliveryDate, updateStageDate or                *)
(* updateStageReady, every row the call touched whose shortageQty is 0,    *)
(* a skeleton or a row resolved by a merge import included, has status     *)
(* 'Ready'.                                                                *)
(***************************************************************************)
C13_ZeroQuantityIsReady ==
  Recomputes =>
    \A k \in Touched : Rows[k].shortageQty = 0 => Rows[k].status = "Ready"

(***************************************************************************)
(* C14.  updateStageReady(wo, stage, true) sets isMaterialReady = true and *)
(* status = 'Ready' on every row of that work order and stage, skeleton    *)
(* rows included, leaves every other row as it was, and returns true when  *)
(* a row matched and false when none did.                                  *)
(***************************************************************************)
C14_StageReadyMarksGroup ==
  (IsCall("updateStageReady") /\ op.args[3] = TRUE) =>
    /\ Len(Rows) = Len(PreRows)
    /\ \A k \in 1..Len(PreRows) :
         IF k \in Touched
           THEN Rows[k].isMaterialReady /\ Rows[k].status = "Ready"
           ELSE Rows[k] = PreRows[k]
    /\ ret = (Touched # {})

\* the group held a skeleton and a pending shortage row, and a row of
\* another work order stood outside it
C14_Witness ==
  /\ IsCall("updateStageReady")
  /\ op.args[3] = TRUE
  /\ ret = TRUE
  /\ \E k \in Touched : PreRows[k].partNumber = SKELETON
  /\ \E k \in Touched :
       PreRows[k].partNumber # SKELETON /\ PreRows[k].status = "Pending"
  /\ \E k \in 1..Len(PreRows) : k \notin Touched

(***************************************************************************)
(* C15.  Status is recomputed after every mutation of isMaterialReady or   *)
(* purchaserReplyDate: when updateDeliveryDate, updateStageDate or         *)
(* updateStageReady returns true, every row it touched has status 'Ready'  *)
(* if isMaterialReady, else 'Pending' if purchaserReplyDate is empty, else *)
(* 'Confirmed'; updatePurchaserRemark changes purchaserRemark only, on the *)
(* row with the given id, and leaves every status as it was.               *)
(***************************************************************************)
C15_StatusRecomputed ==
  /\ (Recomputes /\ ret = TRUE) =>
       \A k \in Touched :
         Rows[k].status =
           IF Rows[k].isMaterialReady THEN "Ready"
           ELSE IF Rows[k].purchaserReplyDate = "" THEN "Pending"
           ELSE "Confirmed"
  /\ IsCall("updatePurchaserRemark") =>
       /\ Len(Rows) = Len(PreRows)
       /\ \A k \in 1..Len(PreRows) :
            Rows[k] = [PreRows[k] EXCEPT !.purchaserRemark = Rows[k].purchaserRemark]
       /\ \A k \in 1..Len(PreRows) :
            Rows[k] # PreRows[k] => k = FirstRowWithId(PreRows, op.args[1])

\* readiness was withdrawn from a row that has a reply date: the status
\* went from 'Ready' to 'Confirmed'
C15_Witness ==
  /\ IsCall("updateStageReady")
  /\ op.args[3] = FALSE
  /\ \E k \in Touched :
       /\ PreRows[k].status = "Ready"
       /\ PreRows[k].isMaterialReady
       /\ Rows[k].purchaserReplyDate # ""
       /\ Rows[k].status = "Confirmed"

(***************************************************************************)
(* C16.  archiveModel is idempotent: a call of archiveModel(m, b) that     *)
(* directly follows a call of archiveModel(m, b) changes neither the       *)
(* database in memory nor the persisted blob.                              *)
(***************************************************************************)
C16_ArchiveIdempotent ==
  [][(IsCall("archiveModel") /\ op' = op /\ nops' = nops + 1)
       => (db' = db /\ store' = store)]_vars

\* a call of archiveModel(m, true) that found the rows of m archived and
\* the blob up to date
C16_Witness ==
  /\ IsCall("archiveModel")
  /\ op.args[2] = TRUE
  /\ ModelRows(PreRows, op.args[1]) # {}
  /\ \A k \in ModelRows(PreRows, op.args[1]) : PreRows[k].isArchived
  /\ db = pre
  /\ store = preStore

(***************************************************************************)
(* C17.  archiveModel(m, b) sets isArchived = b on exactly the rows whose  *)
(* model equals m after both are trimmed and lower-cased, changes no other *)
(* field, no other row and no user, returns true and persists, also when   *)
(* no row matches.                                                         *)
(***************************************************************************)
C17_ArchiveFrame ==
  IsCall("archiveModel") =>
    /\ Len(Rows) = Len(PreRows)
    /\ \A k \in 1..Len(PreRows) :
         Rows[k] =
           IF ToLowerCase(Trim(PreRows[k].model)) = ToLowerCase(Trim(op.args[1]))
             THEN [PreRows[k] EXCEPT !.isArchived = op.args[2]]
             ELSE PreRows[k]
    /\ db.usersRoles = pre.usersRoles
    /\ ret = TRUE
    /\ store = <<Stringify(db)>>

\* ' MODELA ' archived the rows of ModelA and left a row of another model
C17_Witness ==
  /\ IsCall("archiveModel")
  /\ op.args[1] = Pad("MODELA")
  /\ op.args[2] = TRUE
  /\ \E k \in 1..Len(Rows) :
       Rows[k].model = "ModelA" /\ Rows[k].isArchived /\ ~PreRows[k].isArchived
  /\ \E k \in 1..Len(Rows) : Rows[k].model # "ModelA" /\ ~Rows[k].isArchived

(***************************************************************************)
(* C18.  A failing operation leaves state untouched: whenever              *)
(* updateDeliveryDate, updatePurchaserRemark, updateStageDate,             *)
(* updateStageReady, addUser or deleteUser returns false, the database in  *)
(* memory and the persisted blob are what they were before the call.       *)
(***************************************************************************)
CanFail ==
  {"updateDeliveryDate", "updatePurchaserRemark", "updateStageDate",
   "updateStageReady", "addUser", "deleteUser"}

C18_FailureLeavesState ==
  (op.name \in CanFail /\ ret = FALSE) => (db = pre /\ store = preStore)

\* addUser met a username that differs from an existing one in case only,
\* while tracking rows existed and a blob had been persisted
C18_Witness ==
  /\ IsCall("addUser")
  /\ ret = FALSE
  /\ \A k \in 1..Len(pre.usersRoles) :
       pre.usersRoles[k].username # op.args[1].username
  /\ Len(PreRows) > 0
  /\ preStore # <<>>

(***************************************************************************)
(* C19.  Usernames are case-insensitively unique: addUser returns false    *)
(* and leaves the user list unchanged when a user whose username equals    *)
(* the new one ignoring case exists, and no two users of a reachable state *)
(* have usernames equal ignoring case.                                     *)
(***************************************************************************)
UsersUnique(us) ==
  \A i, j \in 1..Len(us) :
    i # j => ToLowerCase(us[i].username) # ToLowerCase(us[j].username)

C19_UsernamesUnique ==
  /\ UsersUnique(db.usersRoles)
  /\ (/\ IsCall("addUser")
      /\ \E k \in 1..Len(pre.usersRoles) :
           ToLowerCase(pre.usersRoles[k].username)
             = ToLowerCase(op.args[1].username))
       => (ret = FALSE /\ db.usersRoles = pre.usersRoles)

\* 'Amy' was refused because 'amy' exists
C19_Witness ==
  /\ IsCall("addUser")
  /\ op.args[1].username = "Amy"
  /\ \E k \in 1..Len(pre.usersRoles) : pre.usersRoles[k].username = "amy"
  /\ ret = FALSE
  /\ Len(db.usersRoles) = 2

(***************************************************************************)
(* C20.  The built-in admin account is not deletable: in every state       *)
(* reached through the operations of the service, deleteUser('admin')      *)
(* included, a user with username 'admin' exists, and login('admin')       *)
(* answers that user's role.                                               *)
(***************************************************************************)
C20_AdminNotDeletable ==
  /\ \E k \in 1..Len(db.usersRoles) : db.usersRoles[k].username = "admin"
  /\ (IsCall("login") /\ op.args[1] = "admin") =>
       \E k \in 1..Len(db.usersRoles) :
         /\ db.usersRoles[k].username = "admin"
         /\ ret = [user |-> db.usersRoles[k], role |-> db.usersRoles[k].role]

(***************************************************************************)
(* C21.  Row ids are unique and never reused: in every state reached       *)
(* through importWODetails and importShortages, several imports within one *)
(* clock millisecond included, no two tracking rows have the same id, and  *)
(* a row a merge import or a work-order import keeps has the id it had.    *)
(***************************************************************************)
IdsUnique(ts) == \A i, j \in 1..Len(ts) : i # j => ts[i].id # ts[j].id

C21_RowIdsUnique ==
  /\ IdsUnique(Rows)
  /\ (IsImport("merge") \/ IsCall("importWODetails")) =>
       \A k \in 1..Len(PreRows) : Rows[k].id = PreRows[k].id

(***************************************************************************)
(* C24.  Merge-policy update of an existing key: when the keys of the rows *)
(* are unique, a row whose (workOrder, partNumber) is in the batch ends    *)
(* with the shortageQty of the (last) record of that pair, and with status *)
(* 'Ready' if that quantity is 0, otherwise with the status it had before  *)
(* the import.                                                             *)
(***************************************************************************)
LastRecordOf(data, wo, pn) ==
  LET hit == {i \in 1..Len(data) :
                data[i].workOrder = wo /\ data[i].partNumber = pn}
  IN CHOOSE i \in hit : \A j \in hit : j <= i

C24_MergeUpdatesQuantity ==
  (IsImport("merge") /\ KeyUnique(PreRows)) =>
    \A k \in 1..Len(PreRows) :
      InBatch(Batch, PreRows[k].workOrder, PreRows[k].partNumber) =>
        LET d == Batch[LastRecordOf(Batch, PreRows[k].workOrder,
                                    PreRows[k].partNumber)]
        IN /\ Rows[k].shortageQty = d.shortageQty
           /\ Rows[k].status =
                IF d.shortageQty = 0 THEN "Ready" ELSE PreRows[k].status

(***************************************************************************)
(* C25.  No code path produces the status 'Late': no row of a reachable    *)
(* state, in memory or in the persisted blob, has status 'Late'.           *)
(***************************************************************************)
C25_NeverLate ==
  /\ \A k \in 1..Len(Rows) : Rows[k].status # "Late"
  /\ store # <<>> =>
       \A k \in 1..Len(store[1].trackingSchedule) :
         store[1].trackingSchedule[k].status # "Late"

\* a status was recomputed for a row that has a reply date and is not
\* ready: it is 'Confirmed'
C25_Witness ==
  /\ Recomputes
  /\ ret = TRUE
  /\ \E k \in Touched :
       /\ ~Rows[k].isMaterialReady
       /\ Rows[k].purchaserReplyDate # ""
       /\ Rows[k].shortageQty > 0
       /\ Rows[k].status = "Confirmed"

(***************************************************************************)
(* C26.  Merge import is idempotent: a merge import that directly follows  *)
(* a merge import of the same batch leaves the rows, generated ids aside,  *)
(* as the first one left them.                                             *)
(***************************************************************************)
WithoutIds(ts) == [k \in 1..Len(ts) |-> WithoutId(ts[k])]

C26_MergeIdempotent ==
  [][(IsImport("merge") /\ op' = op /\ nops' = nops + 1)
       => WithoutIds(db'.trackingSchedule) = WithoutIds(db.trackingSchedule)]_vars

(***************************************************************************)
(* C27.  Merge import touches only the work orders of its batch: every row *)
(* whose workOrder is not the workOrder of an incoming record is, in every *)
(* field, what it was, also when work orders or part numbers contain '-'.  *)
(***************************************************************************)
C27_MergeTouchesBatchOnly ==
  IsImport("merge") =>
    \A k \in 1..Len(PreRows) :
      PreRows[k].workOrder \notin TargetWOs(Batch) => Rows[k] = PreRows[k]

(***************************************************************************)
(* C28.  No stale 'Ready': every row with status 'Ready' has               *)
(* isMaterialReady = true or shortageQty = 0; a shortage resolved by a     *)
(* merge import that comes back with a positive quantity does not stay     *)
(* 'Ready'.                                                                *)
(***************************************************************************)
C28_NoStaleReady ==
  \A k \in 1..Len(Rows) :
    Rows[k].status = "Ready" =>
      (Rows[k].isMaterialReady \/ Rows[k].shortageQty = 0)

(***************************************************************************)
(* C30.  login and deleteUser agree on username identity: deleteUser(u)    *)
(* returns true exactly when login(u) would have succeeded just before     *)
(* the call, and after it login(u) finds no user, also when u differs from *)
(* the stored username in letter case only.                                *)
(***************************************************************************)
C30_LoginDeleteAgree ==
  IsCall("deleteUser") =>
    /\ (ret = TRUE) <=> (FirstUserNamed(pre.usersRoles, op.args[1]) # 0)
    /\ FirstUserNamed(db.usersRoles, op.args[1]) = 0

(***************************************************************************)
(* C29.  No lost update across sessions: with two instances of the service *)
(* on one persisted blob, once a tab has completed a successful mutation   *)
(* of a persisted row r', every row of the blob other than r' is as it was *)
(* persisted before that call, so what the other tab persisted on a row r  *)
(* is still there, also when the mutating tab has not reloaded since.      *)
(***************************************************************************)
StoredRows(blob) == IF blob = <<>> THEN <<>> ELSE Parse(blob[1]).trackingSchedule

C29_NoLostUpdate ==
  (/\ op.name \in {"updateDeliveryDate", "updatePurchaserRemark"}
   /\ ret = TRUE
   /\ \E k \in 1..Len(StoredRows(preStore)) :
        StoredRows(preStore)[k].id = op.args[1])
    => \A k \in 1..Len(StoredRows(preStore)) :
         StoredRows(preStore)[k].id # op.args[1]
           => /\ k <= Len(StoredRows(store))
              /\ StoredRows(store)[k] = StoredRows(preStore)[k]

(***************************************************************************)
(* C23.  The injected latency has no correctness role: once every call the *)
(* caller invoked has resolved, the tracking rows are the ones obtained    *)
(* with every body run at its invocation (row ids aside), also when a call *)
(* was invoked before an earlier delayed import had resolved.              *)
(***************************************************************************)
C23_LatencyHasNoRole ==
  pending = <<>> => WithoutIds(Rows) = WithoutIds(ref)

(***************************************************************************)
(* C22.  No operation observes a partially-mutated state: with any number  *)
(* of calls in flight, the database a body reads and the database it       *)
(* leaves are each the result of whole calls: the database in memory is    *)
(* the persisted one (the initial one while nothing is persisted), never a *)
(* database some body has mutated and not yet persisted.                   *)
(***************************************************************************)
Whole(d, blob) ==
  IF blob = <<>> THEN d = INITIAL_DB ELSE Stringify(d) = blob[1]

C22_NoPartialState ==
  /\ Whole(db, store)
  /\ Whole(pre, preStore)

\* a body has mutated and persisted while two other calls, one of them
\* delayed for longer, were in flight
C22_Witness ==
  /\ Len(pending) = 2
  /\ Delay(pending[1].name) > Delay(op.name)
  /\ op.name \in {"importShortages", "importWODetails", "updateStageReady"}
  /\ store # preStore
  /\ db # pre

====
